---- MODULE Spec2Model ----
(***************************************************************************)
(* magicbot/inject.py: the two functions that decide which annotated       *)
(* attributes of a component are injection requests                        *)
(* (get_injection_requests) and which value of the robot's injectables     *)
(* each request receives (find_injections).                                *)
(*                                                                         *)
(* Python objects are written as the text of their repr ("1", "3.5",       *)
(* "None", "int", "list[int]").  A dict is the sequence of its             *)
(* <<key, value>> items in insertion order, keys distinct.  A call either  *)
(* returns a dict or raises; both outcomes are one record (Return, Raise). *)
(***************************************************************************)
EXTENDS Naturals, Sequences, FiniteSets, TLC

VARIABLES arg_type_hints, arg_component, arg_requests, arg_injectables,
          arg_cname, pc, ret

vars == <<arg_type_hints, arg_component, arg_requests, arg_injectables,
          arg_cname, pc, ret>>

(***************************************************************************)
(* Bounds of the explored inputs.                                          *)
(***************************************************************************)
MaxHints == 2

MaxRequests == 2

MaxPool == 2

(***************************************************************************)
(* The Python object model the two functions rely on.                      *)
(***************************************************************************)
None == "None"

\* type(obj).__name__
type_of(obj) ==
  CASE obj = "None" -> "NoneType"
    [] obj = "1" -> "int"
    [] obj = "True" -> "bool"
    [] obj = "3.5" -> "float"
    [] obj \in {"int", "float", "bool", "object", "list", "NoneType", "type"} -> "type"
    [] obj = "list[int]" -> "GenericAlias"
    [] obj = "ClassVar[int]" -> "_GenericAlias"
    [] obj = "ClassVar" -> "_SpecialForm"
    [] OTHER -> "str"

\* the classes in cls.__mro__
mro(cls) ==
  IF cls = "bool" THEN {"bool", "int", "object"} ELSE {cls, "object"}

isinstance(obj, cls) == cls \in mro(type_of(obj))

\* getattr(inject_type, "__origin__", None)
getattr_origin(inject_type) ==
  CASE inject_type = "list[int]" -> "list"
    [] inject_type = "ClassVar[int]" -> "ClassVar"
    [] OTHER -> None

\* str(obj), which the f-strings and the %s of the log apply
str_of(obj) ==
  CASE type_of(obj) = "type" -> "<class '" \o obj \o "'>"
    [] obj = "ClassVar" -> "typing.ClassVar"
    [] obj = "ClassVar[int]" -> "typing.ClassVar[int]"
    [] OTHER -> obj

\* n.startswith(prefix)
startswith(n, prefix) ==
  Len(n) >= Len(prefix) /\ SubSeq(n, 1, Len(prefix)) = prefix

\* A component is None or an object with attributes (name -> value).
NoComponent == [is_none |-> TRUE, attrs |-> [a \in {} |-> None]]

LiveComponent(attrs) == [is_none |-> FALSE, attrs |-> attrs]

\* hasattr(component, n): the attribute exists, whatever its value
hasattr(component, n) == n \in DOMAIN component.attrs

\* the keys of a dict
KeySet(d) == {d[i][1] : i \in 1..Len(d)}

\* d[k] = v: replaces the value of an existing key in place, else appends
dict_set(d, k, v) ==
  IF k \in KeySet(d)
  THEN [i \in 1..Len(d) |-> IF d[i][1] = k THEN <<k, v>> ELSE d[i]]
  ELSE Append(d, <<k, v>>)

\* injectables.get(k): None when the key is absent
dict_get(injectables, k) ==
  IF k \in DOMAIN injectables THEN injectables[k] ELSE None

(***************************************************************************)
(* Outcome of a call.  seen counts the loop iterations entered, log holds  *)
(* the logger.debug lines.                                                 *)
(***************************************************************************)
NotCalled ==
  [status |-> "none", value |-> <<>>, exc |-> "", kind |-> "", name |-> "",
   message |-> "", seen |-> 0, log |-> <<>>]

Return(value, seen, log) ==
  [status |-> "return", value |-> value, exc |-> "", kind |-> "", name |-> "",
   message |-> "", seen |-> seen, log |-> log]

Raise(exc, kind, n, message, seen, log) ==
  [status |-> "raise", value |-> <<>>, exc |-> exc, kind |-> kind, name |-> n,
   message |-> message, seen |-> seen, log |-> log]

(***************************************************************************)
(* get_injection_requests                                                  *)
(***************************************************************************)
\* a variant that takes only double-underscore names for private
is_private_dunder(n) == startswith(n, "__")

\* line 25: the variable is private
is_private(n) == startswith(n, "_")

\* a variant that takes an attribute holding None for unset
already_set_not_none(component, n) ==
  ~component.is_none /\ hasattr(component, n) /\ component.attrs[n] # None

\* line 32: the variable has been set on the instantiated component
already_set(component, n) ==
  ~component.is_none /\ hasattr(component, n)

\* a variant without the replacement of generics
normalize_skipped(inject_type) == inject_type

\* lines 36-38: a generic type from the typing module is replaced by its origin
normalize(inject_type) ==
  LET origin == getattr_origin(inject_type)
  IN  IF origin # None THEN origin ELSE inject_type

\* line 27
private_message(cname, n) ==
  "Cannot inject into component " \o cname \o " __init__ param " \o n

Guidance ==
  "\nLone non-injection variable annotations are disallowed. Did you mean to assign a static variable?"

\* a variant that appends the guidance whether or not there is a component
non_type_message_guided(cname, n, inject_type, component) ==
  "Component " \o cname \o " has a non-type annotation " \o n
    \o ": " \o str_of(inject_type) \o Guidance

\* lines 42-46
non_type_message(cname, n, inject_type, component) ==
  LET message == "Component " \o cname \o " has a non-type annotation " \o n
                   \o ": " \o str_of(inject_type)
  IN  IF ~component.is_none THEN message \o Guidance ELSE message

\* lines 23-51: the loop from item i on, requests being the dict built so far
RECURSIVE get_injection_requests_from(_, _, _, _, _)
get_injection_requests_from(type_hints, cname, component, i, requests) ==
  IF i > Len(type_hints) THEN Return(requests, i - 1, <<>>)
  ELSE
    LET n == type_hints[i][1]
        inject_type == normalize(type_hints[i][2])
    IN  IF is_private(n)
        THEN IF component.is_none
             THEN Raise("MagicInjectError", "InjectionConfigError", n,
                        private_message(cname, n), i, <<>>)
             ELSE get_injection_requests_from(type_hints, cname, component,
                                              i + 1, requests)
        ELSE IF already_set(component, n)
        THEN get_injection_requests_from(type_hints, cname, component,
                                         i + 1, requests)
        ELSE IF ~isinstance(inject_type, "type")
        THEN Raise("TypeError", "TypeDeclarationError", n,
                   non_type_message(cname, n, inject_type, component), i, <<>>)
        ELSE get_injection_requests_from(type_hints, cname, component, i + 1,
                                         dict_set(requests, n, inject_type))

get_injection_requests(type_hints, cname, component) ==
  get_injection_requests_from(type_hints, cname, component, 1, <<>>)

(***************************************************************************)
(* find_injections                                                         *)
(***************************************************************************)
\* line 71: the key prefixed with the component name
prefixed_key(cname, n) == cname \o "_" \o n

\* a variant that prefers the prefixed name
lookup_prefixed_first(injectables, cname, n) ==
  LET injectable == dict_get(injectables, prefixed_key(cname, n))
  IN  IF injectable = None THEN dict_get(injectables, n) ELSE injectable

\* a variant whose fallback ignores which component is asking
lookup_fixed_component(injectables, cname, n) ==
  LET injectable == dict_get(injectables, n)
  IN  IF injectable = None
      THEN dict_get(injectables, prefixed_key("c", n))
      ELSE injectable

\* a variant that falls back only when the plain name is no key at all
lookup_by_key_presence(injectables, cname, n) ==
  IF n \in DOMAIN injectables
  THEN injectables[n]
  ELSE dict_get(injectables, prefixed_key(cname, n))

\* lines 68-71: the plain name first, the prefixed name when that gave None
lookup(injectables, cname, n) ==
  LET injectable == dict_get(injectables, n)
  IN  IF injectable = None
      THEN dict_get(injectables, prefixed_key(cname, n))
      ELSE injectable

\* a variant without the test for None
check_injectable_no_none_test(injectable, inject_type) ==
  IF ~isinstance(injectable, inject_type) THEN "mismatch" ELSE "ok"

\* a variant without the test of the type
check_injectable_no_type_test(injectable, inject_type) ==
  IF injectable = None THEN "absent" ELSE "ok"

\* lines 74 and 80: what the two checks make of the value found
check_injectable(injectable, inject_type) ==
  IF injectable = None THEN "absent"
  ELSE IF ~isinstance(injectable, inject_type) THEN "mismatch"
  ELSE "ok"

\* line 76
absent_message(cname, n, inject_type) ==
  "Component " \o cname \o " has variable " \o n \o " (type "
    \o str_of(inject_type) \o "), which is absent from robot"

\* line 82
mismatch_message(cname, n, injectable, inject_type) ==
  "Component " \o cname \o " variable " \o n
    \o " does not match type in robot! (Got " \o str_of(type_of(injectable))
    \o ", expected " \o str_of(inject_type) \o ")"

\* a variant that records the value under the prefixed name
record_injection_prefixed(to_inject, cname, n, injectable) ==
  dict_set(to_inject, prefixed_key(cname, n), injectable)

\* line 85
record_injection(to_inject, cname, n, injectable) ==
  dict_set(to_inject, n, injectable)

\* line 86
debug_line(cname, n, injectable) ==
  "-> " \o cname \o "." \o n \o " = " \o str_of(injectable)

\* lines 67-88: the loop from item i on
RECURSIVE find_injections_from(_, _, _, _, _, _)
find_injections_from(requests, injectables, cname, i, to_inject, log) ==
  IF i > Len(requests) THEN Return(to_inject, i - 1, log)
  ELSE
    LET n == requests[i][1]
        inject_type == requests[i][2]
        injectable == lookup(injectables, cname, n)
        verdict == check_injectable(injectable, inject_type)
    IN  IF verdict = "absent"
        THEN Raise("MagicInjectError", "MissingInjectableError", n,
                   absent_message(cname, n, inject_type), i, log)
        ELSE IF verdict = "mismatch"
        THEN Raise("MagicInjectError", "TypeMismatchError", n,
                   mismatch_message(cname, n, injectable, inject_type), i, log)
        ELSE find_injections_from(requests, injectables, cname, i + 1,
               record_injection(to_inject, cname, n, injectable),
               Append(log, debug_line(cname, n, injectable)))

find_injections(requests, injectables, cname) ==
  find_injections_from(requests, injectables, cname, 1, <<>>, <<>>)

(***************************************************************************)
(* The inputs explored.                                                    *)
(***************************************************************************)
ComponentNames == {"c", "d"}

AttributeNames == {"x", "y", "_p"}

\* what an annotation can be: a class, a generic alias of a class, a typing
\* special form with parameters, an object that is no type at all
Annotations == {"int", "list", "list[int]", "ClassVar[int]", "1"}

AttributeValues == {"None", "1"}

RequestNames == {"x", "y", "c_x"}

RequestTypes == {"int", "float", "object"}

PoolValues == {"None", "1", "True", "3.5"}

\* the request names and the names prefixed with a component's name
PoolKeys ==
  RequestNames \cup {prefixed_key(c, n) : c \in ComponentNames, n \in {"x", "y"}}

\* the dicts of at most max items with keys in K and values in V
Dicts(K, V, max) ==
  UNION {{d \in [1..k -> K \X V] :
            \A i, j \in 1..k : d[i][1] = d[j][1] => i = j} : k \in 0..max}

Components ==
  {NoComponent} \cup
  {LiveComponent(a) : a \in UNION {[D -> AttributeValues] : D \in SUBSET AttributeNames}}

Pools ==
  UNION {[D -> PoolValues] : D \in {S \in SUBSET PoolKeys : Cardinality(S) <= MaxPool}}

(***************************************************************************)
(* Extraction alone: the caller passes a class's type hints.               *)
(***************************************************************************)
InitExtract ==
  /\ arg_type_hints \in Dicts(AttributeNames, Annotations, MaxHints)
  /\ arg_component \in Components
  /\ arg_cname \in ComponentNames
  /\ arg_requests = <<>>
  /\ arg_injectables = [k \in {} |-> None]
  /\ pc = "extract"
  /\ ret = NotCalled

Extract ==
  /\ pc = "extract"
  /\ ret' = get_injection_requests(arg_type_hints, arg_cname, arg_component)
  /\ pc' = "extracted"
  /\ UNCHANGED <<arg_type_hints, arg_component, arg_requests, arg_injectables, arg_cname>>

NextExtract == Extract

SpecExtract == InitExtract /\ [][NextExtract]_vars

(***************************************************************************)
(* Resolution alone: requests are as get_injection_requests returns them   *)
(* (public names, genuine types).                                          *)
(***************************************************************************)
InitResolve ==
  /\ arg_type_hints = <<>>
  /\ arg_component = NoComponent
  /\ arg_cname \in ComponentNames
  /\ arg_requests \in Dicts(RequestNames, RequestTypes, MaxRequests)
  /\ arg_injectables \in Pools
  /\ pc = "resolve"
  /\ ret = NotCalled

Resolve ==
  /\ pc = "resolve"
  /\ ret' = find_injections(arg_requests, arg_injectables, arg_cname)
  /\ pc' = "resolved"
  /\ UNCHANGED <<arg_type_hints, arg_component, arg_requests, arg_injectables, arg_cname>>

NextResolve == Resolve

SpecResolve == InitResolve /\ [][NextResolve]_vars

(***************************************************************************)
(* Vocabulary of the properties of find_injections.                        *)
(***************************************************************************)
\* the keys of a dict, in order
dict_keys(d) == [i \in 1..Len(d) |-> d[i][1]]

\* the value of key k of a dict, for k one of its keys
dict_at(d, k) == d[CHOOSE i \in 1..Len(d) : d[i][1] = k][2]

Resolved == pc = "resolved"

ReqIdx == 1..Len(arg_requests)

ReqName(i) == arg_requests[i][1]

ReqType(i) == arg_requests[i][2]

BareKey(i) == ReqName(i)

PrefKey(i) == arg_cname \o "_" \o ReqName(i)

InPool(k) == k \in DOMAIN arg_injectables

\* neither key holds an entry
NoEntry(i) == ~InPool(BareKey(i)) /\ ~InPool(PrefKey(i))

\* the value the resolver settles on: the bare entry unless it is missing or
\* None, else the prefixed entry; None when that is missing too
Candidate(i) ==
  IF InPool(BareKey(i)) /\ arg_injectables[BareKey(i)] # None
  THEN arg_injectables[BareKey(i)]
  ELSE IF InPool(PrefKey(i)) THEN arg_injectables[PrefKey(i)] ELSE None

Satisfiable(i) == Candidate(i) # None /\ isinstance(Candidate(i), ReqType(i))

EarlierSatisfiable(i) == \A j \in ReqIdx : j < i => Satisfiable(j)

Succeeded == ret.status = "return"

Failed == ret.status = "raise" /\ ret.value = <<>>

\* the call stopped in iteration i: nothing after request i was looked at,
\* and only the requests before it were resolved and logged
StoppedAt(i) == ret.seen = i /\ Len(ret.log) = i - 1 /\ ret.name = ReqName(i)

MapsTo(n, v) == n \in KeySet(ret.value) /\ dict_at(ret.value, n) = v

(***************************************************************************)
(* C1                                                                      *)
(***************************************************************************)
AllBareCompatible ==
  \A i \in ReqIdx :
    InPool(BareKey(i)) /\ isinstance(arg_injectables[BareKey(i)], ReqType(i))

AllBareNotNone == \A i \in ReqIdx : arg_injectables[BareKey(i)] # None

AllBareReturned ==
  /\ Succeeded
  /\ \A i \in ReqIdx : MapsTo(ReqName(i), arg_injectables[BareKey(i)])

\* C1 as stated: when every request name has a value of the requested type
\* under its bare key, resolution succeeds and returns exactly those values.
C1_DirectLookup_AsStated ==
  (Resolved /\ AllBareCompatible) => AllBareReturned

\* C1, amended: when every request name has a value other than None of the
\* requested type under its bare key, resolution succeeds and maps each name
\* to the value under its bare key, whatever the prefixed key holds.
C1_DirectLookup ==
  (Resolved /\ AllBareCompatible /\ AllBareNotNone) => AllBareReturned

C1_Witness ==
  /\ Resolved /\ AllBareCompatible /\ AllBareNotNone
  /\ \E i \in ReqIdx :
       /\ InPool(PrefKey(i))
       /\ arg_injectables[PrefKey(i)] # None
       /\ isinstance(arg_injectables[PrefKey(i)], ReqType(i))
       /\ arg_injectables[PrefKey(i)] # arg_injectables[BareKey(i)]
       /\ MapsTo(ReqName(i), arg_injectables[BareKey(i)])

(***************************************************************************)
(* C2                                                                      *)
(***************************************************************************)
PrefixedOnly(i) ==
  /\ ~InPool(BareKey(i))
  /\ InPool(PrefKey(i))
  /\ isinstance(arg_injectables[PrefKey(i)], ReqType(i))

\* C2: a successful resolution maps every request that has no entry under
\* its bare key and a type-compatible entry under the prefixed key to the
\* prefixed entry's value, under the attribute name; the prefixed key is a
\* key of the result only where it is itself a requested name.
C2_PrefixedFallback ==
  (Resolved /\ Succeeded) =>
    \A i \in ReqIdx :
      PrefixedOnly(i) =>
        /\ MapsTo(ReqName(i), arg_injectables[PrefKey(i)])
        /\ PrefKey(i) \in KeySet(ret.value) => PrefKey(i) \in KeySet(arg_requests)

C2_Witness ==
  /\ Resolved /\ Succeeded
  /\ \E i \in ReqIdx :
       /\ PrefixedOnly(i)
       /\ PrefKey(i) \notin KeySet(ret.value)
       /\ MapsTo(ReqName(i), arg_injectables[PrefKey(i)])

(***************************************************************************)
(* C3                                                                      *)
(***************************************************************************)
\* C3 as stated: a request set containing a request with no entry under
\* either key fails with the missing-injectable error, returns nothing and
\* evaluates nothing after the failing request.
C3_MissingFatal_AsStated ==
  Resolved =>
    \A i \in ReqIdx :
      NoEntry(i) =>
        /\ Failed
        /\ ret.kind = "MissingInjectableError"
        /\ ret.seen <= i

\* C3, amended: a request set containing a request n with no entry under
\* either key fails, returns no partial result and evaluates no request
\* after the one that failed; the failure is the missing-injectable error
\* for n when every request before n can be satisfied, and otherwise the
\* error of the first request that cannot.
C3_MissingFatal ==
  Resolved =>
    \A i \in ReqIdx :
      NoEntry(i) =>
        /\ Failed
        /\ ret.exc = "MagicInjectError"
        /\ \E k \in 1..i : StoppedAt(k) /\ EarlierSatisfiable(k) /\ ~Satisfiable(k)
        /\ EarlierSatisfiable(i) =>
             /\ ret.kind = "MissingInjectableError"
             /\ ret.message = absent_message(arg_cname, ReqName(i), ReqType(i))
             /\ StoppedAt(i)

C3_Witness ==
  /\ Resolved
  /\ \E i \in ReqIdx :
       /\ NoEntry(i) /\ i < Len(arg_requests)
       /\ ret.kind = "MissingInjectableError" /\ StoppedAt(i)

(***************************************************************************)
(* C4                                                                      *)
(***************************************************************************)
HasFound(i) == InPool(BareKey(i)) \/ InPool(PrefKey(i))

\* the found value as C4 words it: the bare entry if present, else the
\* prefixed entry
FoundAsStated(i) ==
  IF InPool(BareKey(i)) THEN arg_injectables[BareKey(i)]
  ELSE arg_injectables[PrefKey(i)]

\* C4 as stated: a request whose found value is not an instance of the
\* requested type makes resolution fail with the type-mismatch error.
C4_TypeMismatchFatal_AsStated ==
  Resolved =>
    \A i \in ReqIdx :
      (HasFound(i) /\ ~isinstance(FoundAsStated(i), ReqType(i))) =>
        Failed /\ ret.kind = "TypeMismatchError"

\* C4, amended: a request n whose found value (the bare entry unless it is
\* missing or None, else the prefixed entry) is not None and not an
\* instance of the requested type makes resolution fail and return nothing;
\* the failure is the type-mismatch error for n when every request before n
\* can be satisfied, and otherwise the error of the first request that
\* cannot.  A bare entry other than None that is type-incompatible is never
\* replaced by the prefixed entry.
C4_TypeMismatchFatal ==
  Resolved =>
    \A i \in ReqIdx :
      (Candidate(i) # None /\ ~isinstance(Candidate(i), ReqType(i))) =>
        /\ Failed
        /\ ret.exc = "MagicInjectError"
        /\ \E k \in 1..i : StoppedAt(k) /\ EarlierSatisfiable(k) /\ ~Satisfiable(k)
        /\ EarlierSatisfiable(i) =>
             /\ ret.kind = "TypeMismatchError"
             /\ ret.message =
                  mismatch_message(arg_cname, ReqName(i), Candidate(i), ReqType(i))
             /\ StoppedAt(i)

C4_Witness ==
  /\ Resolved
  /\ \E i \in ReqIdx :
       /\ InPool(BareKey(i)) /\ arg_injectables[BareKey(i)] # None
       /\ ~isinstance(arg_injectables[BareKey(i)], ReqType(i))
       /\ InPool(PrefKey(i))
       /\ arg_injectables[PrefKey(i)] # None
       /\ isinstance(arg_injectables[PrefKey(i)], ReqType(i))
       /\ ret.kind = "TypeMismatchError" /\ StoppedAt(i)

(***************************************************************************)
(* C5                                                                      *)
(***************************************************************************)
HeldFor(i) ==
  {arg_injectables[k] : k \in {BareKey(i), PrefKey(i)} \cap DOMAIN arg_injectables}

\* C5: a successful resolution returns the request names, all of them and
\* only them, in request order, each with a value the pool holds under the
\* name or the prefixed name and that is an instance of the requested type.
C5_OutputGuarantee ==
  (Resolved /\ Succeeded) =>
    /\ dict_keys(ret.value) = dict_keys(arg_requests)
    /\ \A i \in ReqIdx :
         /\ ret.value[i][2] \in HeldFor(i)
         /\ isinstance(ret.value[i][2], ReqType(i))

C5_Witness ==
  /\ Resolved /\ Succeeded
  /\ Len(arg_requests) >= 2
  /\ \E i \in ReqIdx : type_of(ret.value[i][2]) # ReqType(i)
  /\ \E i \in ReqIdx : ~InPool(BareKey(i))

(***************************************************************************)
(* C10                                                                     *)
(***************************************************************************)
NoneOrAbsent(k) == ~InPool(k) \/ arg_injectables[k] = None

BareNoneFallsThrough(i) ==
  /\ InPool(BareKey(i)) /\ arg_injectables[BareKey(i)] = None
  /\ InPool(PrefKey(i)) /\ arg_injectables[PrefKey(i)] # None
  /\ isinstance(arg_injectables[PrefKey(i)], ReqType(i))

NoNoneInjected ==
  Succeeded => \A i \in 1..Len(ret.value) : ret.value[i][2] # None

\* C10 as stated: a bare entry of None falls through to the prefixed entry,
\* and a request whose entries are None or absent under both keys makes
\* resolution fail with the missing-injectable error.
C10_NoneIsAbsent_AsStated ==
  Resolved =>
    /\ NoNoneInjected
    /\ \A i \in ReqIdx :
         /\ (BareNoneFallsThrough(i) /\ Succeeded) =>
              MapsTo(ReqName(i), arg_injectables[PrefKey(i)])
         /\ (NoneOrAbsent(BareKey(i)) /\ NoneOrAbsent(PrefKey(i))) =>
              Failed /\ ret.kind = "MissingInjectableError"

\* C10, amended: a pool entry of None counts as no entry.  A request whose
\* bare entry is None and whose prefixed entry is a type-compatible value
\* other than None receives the prefixed value (and resolution succeeds when
\* every request can be satisfied).  A request n whose entries are None or
\* absent under both keys makes resolution fail: with the missing-injectable
\* error for n when every request before n can be satisfied, and otherwise
\* with the error of the first request that cannot.  No successful result
\* holds None, whatever the requested type.
C10_NoneIsAbsent ==
  Resolved =>
    /\ NoNoneInjected
    /\ (\A i \in ReqIdx : Satisfiable(i)) => Succeeded
    /\ \A i \in ReqIdx :
         /\ (BareNoneFallsThrough(i) /\ Succeeded) =>
              MapsTo(ReqName(i), arg_injectables[PrefKey(i)])
         /\ (NoneOrAbsent(BareKey(i)) /\ NoneOrAbsent(PrefKey(i))) =>
              /\ Failed
              /\ EarlierSatisfiable(i) =>
                   ret.kind = "MissingInjectableError" /\ StoppedAt(i)

C10_Witness ==
  /\ Resolved /\ Succeeded
  /\ \E i \in ReqIdx :
       /\ BareNoneFallsThrough(i) /\ ReqType(i) = "object"
       /\ MapsTo(ReqName(i), arg_injectables[PrefKey(i)])

C10_WitnessNoneOnly ==
  /\ Resolved
  /\ \E i \in ReqIdx :
       /\ InPool(BareKey(i)) /\ arg_injectables[BareKey(i)] = None
       /\ InPool(PrefKey(i)) /\ arg_injectables[PrefKey(i)] = None
       /\ ReqType(i) = "object"
       /\ ret.kind = "MissingInjectableError" /\ StoppedAt(i)

(***************************************************************************)
(* Vocabulary of the properties of get_injection_requests.                 *)
(***************************************************************************)
Extracted == pc = "extracted"

HintIdx == 1..Len(arg_type_hints)

HintName(i) == arg_type_hints[i][1]

HintType(i) == arg_type_hints[i][2]

Live == ~arg_component.is_none

Private(i) == SubSeq(HintName(i), 1, 1) = "_"

SetOnComponent(i) == Live /\ HintName(i) \in DOMAIN arg_component.attrs

IsGeneric(h) == getattr_origin(h) # None

\* the type requested by annotation h: its origin when it is a generic
Requested(h) == IF IsGeneric(h) THEN getattr_origin(h) ELSE h

ValidType(h) == type_of(Requested(h)) = "type"

\* entry i makes the call fail when the loop reaches it
Rejected(i) ==
  \/ Private(i) /\ ~Live
  \/ ~Private(i) /\ ~SetOnComponent(i) /\ ~ValidType(HintType(i))

NoneRejectedBefore(i) == \A j \in HintIdx : j < i => ~Rejected(j)

RaisedFor(i) == ret.status = "raise" /\ ret.seen = i /\ ret.name = HintName(i)

\* the message ends with the guidance text
HasGuidance ==
  /\ Len(ret.message) >= Len(Guidance)
  /\ SubSeq(ret.message, Len(ret.message) - Len(Guidance) + 1, Len(ret.message)) = Guidance

(***************************************************************************)
(* C6                                                                      *)
(***************************************************************************)
OmittedSilently(i) ==
  /\ ret.status = "raise" => ret.name # HintName(i)
  /\ ret.status = "return" => HintName(i) \notin KeySet(ret.value)

\* C6 as stated: with component=None an annotation set containing a private
\* name always fails with the injection-config error; with a live component
\* the name causes no failure and is omitted.
C6_PrivateName_AsStated ==
  Extracted =>
    \A i \in HintIdx :
      Private(i) =>
        IF ~Live
        THEN Failed /\ ret.kind = "InjectionConfigError"
        ELSE OmittedSilently(i)

\* C6, amended: with component=None an annotation set containing a private
\* name n always fails and returns nothing: with the injection-config error
\* for n when no entry before n is rejected, and otherwise with the error of
\* the first rejected entry (the type-declaration error when that entry is a
\* public name with a non-type annotation).  With a live component the name
\* never causes a failure and is always omitted, whatever its annotation.
C6_PrivateName ==
  Extracted =>
    \A i \in HintIdx :
      Private(i) =>
        IF ~Live
        THEN /\ Failed
             /\ \E k \in 1..i : RaisedFor(k) /\ Rejected(k) /\ NoneRejectedBefore(k)
             /\ NoneRejectedBefore(i) =>
                  /\ RaisedFor(i)
                  /\ ret.kind = "InjectionConfigError"
                  /\ ret.exc = "MagicInjectError"
                  /\ ret.message = private_message(arg_cname, HintName(i))
        ELSE OmittedSilently(i)

C6_WitnessNone ==
  /\ Extracted /\ ~Live
  /\ \E i \in HintIdx :
       /\ Private(i) /\ i > 1 /\ ~ValidType(HintType(i))
       /\ RaisedFor(i) /\ ret.kind = "InjectionConfigError"

C6_WitnessLive ==
  /\ Extracted /\ Live /\ ret.status = "return" /\ ret.value # <<>>
  /\ \E i \in HintIdx :
       Private(i) /\ ~ValidType(HintType(i)) /\ ~SetOnComponent(i)

(***************************************************************************)
(* C7                                                                      *)
(***************************************************************************)
\* C7: a name that exists as an attribute of the live component is omitted
\* from the returned requests and no error is raised for it, whatever its
\* annotation and whatever the attribute's value; with component=None no
\* public name with a valid type is left out of a returned request set.
C7_AlreadySet ==
  Extracted =>
    /\ \A i \in HintIdx : SetOnComponent(i) => OmittedSilently(i)
    /\ (~Live /\ ret.status = "return") =>
         \A i \in HintIdx :
           (~Private(i) /\ ValidType(HintType(i))) => HintName(i) \in KeySet(ret.value)

C7_Witness ==
  /\ Extracted /\ Live /\ ret.status = "return" /\ ret.value # <<>>
  /\ \E i \in HintIdx :
       /\ SetOnComponent(i) /\ ~Private(i) /\ ~ValidType(HintType(i))
       /\ arg_component.attrs[HintName(i)] = None

(***************************************************************************)
(* C8                                                                      *)
(***************************************************************************)
AllRequestable ==
  \A i \in HintIdx :
    ~Private(i) /\ ~SetOnComponent(i) /\ ValidType(HintType(i))

\* C8: an annotation set with no private name, no name set on the component
\* and only valid types is returned whole and in order, each name with its
\* declared type, a generic replaced by its origin; and every type of every
\* returned request set is a class.
C8_ExtractionResult ==
  Extracted =>
    /\ AllRequestable =>
         /\ ret.status = "return"
         /\ dict_keys(ret.value) = dict_keys(arg_type_hints)
         /\ \A i \in HintIdx :
              ret.value[i][2] =
                (IF HintType(i) = "list[int]" THEN "list" ELSE HintType(i))
    /\ ret.status = "return" =>
         \A k \in 1..Len(ret.value) :
           /\ type_of(ret.value[k][2]) = "type"
           /\ ~IsGeneric(ret.value[k][2])

C8_Witness ==
  /\ Extracted /\ AllRequestable /\ ret.status = "return"
  /\ Len(arg_type_hints) >= 2
  /\ \E i \in HintIdx : HintType(i) = "list[int]" /\ ret.value[i][2] = "list"
  /\ \E i \in HintIdx : HintType(i) = "int" /\ ret.value[i][2] = "int"

(***************************************************************************)
(* C9                                                                      *)
(***************************************************************************)
NonType(i) == ~Private(i) /\ ~SetOnComponent(i) /\ ~ValidType(HintType(i))

\* C9 as stated: an annotation that is no type after normalization, and is
\* not skipped, makes extraction fail with the type-declaration error, which
\* carries the guidance text exactly when a live component was supplied.
C9_TypeValidity_AsStated ==
  Extracted =>
    \A i \in HintIdx :
      NonType(i) =>
        /\ Failed
        /\ ret.kind = "TypeDeclarationError"
        /\ HasGuidance <=> Live

\* C9, amended: an annotation of name n that is no type after normalization,
\* and is not skipped, makes extraction fail and return nothing: with the
\* type-declaration error (a TypeError) for n when no entry before n is
\* rejected, and otherwise with the error of the first rejected entry (with
\* component=None that can be the injection-config error of an earlier
\* private name).  Every type-declaration error carries the guidance text
\* exactly when a live component was supplied.
C9_TypeValidity ==
  Extracted =>
    /\ \A i \in HintIdx :
         NonType(i) =>
           /\ Failed
           /\ \E k \in 1..i : RaisedFor(k) /\ Rejected(k) /\ NoneRejectedBefore(k)
           /\ NoneRejectedBefore(i) =>
                /\ RaisedFor(i)
                /\ ret.kind = "TypeDeclarationError"
                /\ ret.exc = "TypeError"
    /\ ret.kind = "TypeDeclarationError" => (HasGuidance <=> Live)
    /\ ret.kind # "TypeDeclarationError" => ~HasGuidance

C9_WitnessLive ==
  /\ Extracted /\ Live /\ ret.kind = "TypeDeclarationError" /\ HasGuidance
  /\ \E i \in HintIdx : NonType(i) /\ RaisedFor(i) /\ HintType(i) = "ClassVar[int]"

C9_WitnessNone ==
  /\ Extracted /\ ~Live /\ ret.kind = "TypeDeclarationError" /\ ~HasGuidance
  /\ \E i \in HintIdx : NonType(i) /\ RaisedFor(i) /\ i > 1

====
